---------------------------- MODULE Spec2Model ----------------------------
(***************************************************************************)
(* Wasatch.PY: the SPI spectrometer session (wasatch/SPIDevice.py) and the *)
(* background worker that drives a device through its command mailbox      *)
(* (wasatch/WrapperWorker.py).                                             *)
(*                                                                         *)
(* The specifications of this module:                                      *)
(*   SpecDedupe    WrapperWorker.dedupe run on a pending batch             *)
(*   Spec          WrapperWorker.run, its queues, the device behind        *)
(*                 handle_requests                                         *)
(*   SpecConnect   SPIDevice.connect                                       *)
(*   SpecAcquire   SPIDevice.acquire_data and the disconnect flag          *)
(*   SpecSettings  SPIDevice.change_setting and EEPROMWritePage            *)
(*   SpecSession   WrapperWorker.run's loop driving an SPIDevice           *)
(*   SpecRace      set_integration_time_ms in a second thread beside       *)
(*                 acquire_data                                            *)
(***************************************************************************)
EXTENDS Integers, Sequences, FiniteSets, TLC

(***************************************************************************)
(* Bounds of the model.                                                    *)
(***************************************************************************)
\* longest batch pending in the mailbox when dedupe runs (SpecDedupe)
MaxBatch == 3
\* largest value carried by a setting command
MaxValue == 2

(***************************************************************************)
(* Setting commands.  A ControlObject is a (setting, value) pair; the      *)
(* poison pill travelling on the command queue is Python's None, which has *)
(* no attribute `setting`.                                                 *)
(***************************************************************************)
None == [setting |-> "None", value |-> 0]

SettingNames == {"laser_enable", "integration_time_ms", "num_connected_devices"}

Values == 1..MaxValue

ControlObjects == [setting : SettingNames, value : Values]

QueueItems == ControlObjects \cup {None}

Range(s) == {s[i] : i \in 1..Len(s)}

SeqsUpTo(S, n) == UNION {[1..k -> S] : k \in 0..n}

(***************************************************************************)
(* WrapperWorker.dedupe, one queue item at a time.                         *)
(***************************************************************************)
VARIABLES
    q,          \* dedupe's argument: the items still pending in the queue
    keep,       \* dedupe's local list
    dd_pc,      \* "loop" | "returned" | "raised"
    dd_batch    \* history: the batch that was pending when dedupe was called

dedupeVars == <<q, keep, dd_pc, dd_batch>>

VARIABLES
    wpc,                \* where the worker thread is in run
    startup,            \* history: how instantiation and connect ended
    command_queue,      \* caller -> worker: ControlObjects and None
    settings_queue,     \* worker -> caller, one-shot
    response_queue,     \* worker -> caller: readings
    received_poison_pill_command,
    num_connected_devices,
    reading_response,   \* what the acquisition of this cycle returned
    batch,              \* history: the batch drained in the latest cycle
    cycle_applied,      \* history: the requests handed to the device in it
    acquired_in_cycle,  \* history: the latest cycle called acquire_data
    ever_acquired,      \* history: some cycle called acquire_data
    enqueued            \* history: how many commands the caller has sent

workerVars ==
    <<wpc, startup, command_queue, settings_queue,
      response_queue, received_poison_pill_command, num_connected_devices,
      reading_response, batch, cycle_applied, acquired_in_cycle,
      ever_acquired, enqueued>>

VARIABLES
    dpc,                    \* where the thread using the SPIDevice is
    last_call,              \* history: the operation called last, its arguments
    returned,               \* history: how that operation ended
    bus,                    \* history: the SPI transactions of that operation
    disconnect,             \* self.disconnect
    acquiring,              \* self.acquiring
    trigger,                \* the trigger output (D6)
    ready,                  \* the ready input (D5) as last read
    integration_time_ms,    \* settings.state.integration_time_ms
    scans_to_average,       \* settings.state.scans_to_average
    active_pixels_horizontal, \* settings.eeprom.active_pixels_horizontal
    summed_spectra,         \* self.summed_spectra (<<>> also stands for None)
    sum_count,              \* self.sum_count
    session_reading_count,  \* self.session_reading_count
    failure_count,          \* self.failure_count
    spectra,                \* Acquire's local list
    eeprom_pages,           \* connect's local list
    parse_calls,            \* history: the arguments of each eeprom.parse call
    eeprom_marker,          \* the device: what its calibration memory holds
    acquired,               \* history: the spectra of the Readings returned
    started,                \* history: how many acquisitions were triggered
    all_returned            \* history: every acquire_data call returned a Reading

deviceVars ==
    <<dpc, last_call, returned, bus, disconnect, acquiring, trigger, ready,
      integration_time_ms, scans_to_average, active_pixels_horizontal,
      summed_spectra, sum_count, session_reading_count, failure_count,
      spectra, eeprom_pages, parse_calls, eeprom_marker, acquired,
      started, all_returned>>

VARIABLES
    spc,        \* where a second thread is in set_integration_time_ms
    set_value,  \* its argument
    set_calls   \* history: how many calls that thread has made

setterVars == <<spc, set_value, set_calls>>

\* `co.setting != setting` raises AttributeError when co is None
\* (WrapperWorker.py:246): it is evaluated for every element of keep.
FilterRaises(kept) == \E i \in 1..Len(kept) : kept[i] = None

\* lines 236-241: the key of the item just popped (None for a poison pill)
SettingOf(control_object) == control_object.setting

\* lines 244-248: drop the kept entries with the same setting
\* (mutant: the duplicate is left in place)
RemovePreviousNothing(kept, control_object) == kept
RemovePrevious(kept, control_object) ==
    LET Differs(co) == co.setting # SettingOf(control_object)
    IN  SelectSeq(kept, Differs)

\* line 251: the kept list after one item
\* (mutant: the duplicate is overwritten where it stands)
KeepAfterInPlace(kept, control_object) ==
    IF \E i \in 1..Len(kept) : kept[i].setting = SettingOf(control_object)
    THEN [i \in 1..Len(kept) |->
            IF kept[i].setting = SettingOf(control_object)
            THEN control_object ELSE kept[i]]
    ELSE Append(kept, control_object)
KeepAfter(kept, control_object) ==
    Append(RemovePrevious(kept, control_object), control_object)

\* dedupe as a whole (lines 229-254): the list returned, or the exception
\* (the item popped last is lost with it), and what is left in the queue
RECURSIVE DedupeFrom(_, _)
DedupeFrom(kept, pending) ==
    IF pending = <<>> THEN [raised |-> FALSE, keep |-> kept, left |-> <<>>]
    ELSE IF FilterRaises(kept)
         THEN [raised |-> TRUE, keep |-> kept, left |-> Tail(pending)]
    ELSE DedupeFrom(KeepAfter(kept, Head(pending)), Tail(pending))

Dedupe(pending) == DedupeFrom(<<>>, pending)

DedupeInit ==
    /\ q \in SeqsUpTo(QueueItems, MaxBatch)
    /\ dd_batch = q
    /\ keep = <<>>
    /\ dd_pc = "loop"

\* lines 232-251 with the queue not empty and the filter loop completing
DedupeGet ==
    /\ dd_pc = "loop"
    /\ q # <<>>
    /\ ~FilterRaises(keep)
    /\ keep' = KeepAfter(keep, Head(q))
    /\ q' = Tail(q)
    /\ UNCHANGED <<dd_pc, dd_batch>>
    /\ UNCHANGED <<workerVars, deviceVars, setterVars>>

\* lines 232-246 with a poison pill already kept: the item is popped and
\* the filter loop raises AttributeError
DedupeRaise ==
    /\ dd_pc = "loop"
    /\ q # <<>>
    /\ FilterRaises(keep)
    /\ q' = Tail(q)
    /\ dd_pc' = "raised"
    /\ UNCHANGED <<keep, dd_batch>>
    /\ UNCHANGED <<workerVars, deviceVars, setterVars>>

\* lines 252-254
DedupeReturn ==
    /\ dd_pc = "loop"
    /\ q = <<>>
    /\ dd_pc' = "returned"
    /\ UNCHANGED <<q, keep, dd_batch>>
    /\ UNCHANGED <<workerVars, deviceVars, setterVars>>

DedupeNext == DedupeGet \/ DedupeRaise \/ DedupeReturn

\* dedupe is not running
DedupeIdle ==
    /\ q = <<>>
    /\ dd_batch = <<>>
    /\ keep = <<>>
    /\ dd_pc = "returned"

(***************************************************************************)
(* WrapperWorker.run: the worker thread, the caller's side of its three    *)
(* queues, and the device behind handle_requests.                          *)
(***************************************************************************)
\* most commands the caller sends in one run of the worker
MaxCommands == 3
\* most responses the caller leaves waiting when an acquisition starts
MaxResponses == 0

\* what the caller sends in this model: a setting given twice, the
\* integration time, the device-count hint the worker peeks at, and the
\* poison pill
WorkerItems ==
    { [setting |-> "laser_enable", value |-> 1],
      [setting |-> "laser_enable", value |-> 2],
      [setting |-> "integration_time_ms", value |-> 2],
      [setting |-> "num_connected_devices", value |-> 2],
      None }

\* a SpectrometerResponse as the device returns it; data is one of None,
\* False, a Reading with failure set, a Reading with a spectrum, a Reading
\* with neither
Response(keep_alive, error_msg, data) ==
    [keep_alive |-> keep_alive, error_msg |-> error_msg, data |-> data,
     poison_pill |-> FALSE]

Responses ==
    { Response(TRUE, "", "None"),
      Response(TRUE, "", "False"),
      Response(FALSE, "error", "None"),
      Response(FALSE, "error", "ReadingFailure"),
      Response(FALSE, "", "None"),
      Response(FALSE, "", "False"),
      Response(FALSE, "", "ReadingFailure"),
      Response(FALSE, "", "ReadingSpectrum"),
      Response(FALSE, "", "ReadingEmpty") }

NoResponse ==
    [keep_alive |-> FALSE, error_msg |-> "", data |-> "None", poison_pill |-> FALSE]

\* lines 87-89: instantiation raised
InstantiateFailed == [queue |-> <<"None">>, pc |-> "done"]

\* lines 94-108: what connect's outcome puts on the settings queue and where
\* run goes next
\* (mutant: the `return` of the falsy-connect path is missing)
AfterConnectNoReturn(outcome) ==
    CASE outcome = "raise" -> [queue |-> <<"exception while connecting">>, pc |-> "done"]
      [] outcome = "falsy" -> [queue |-> <<"connect failed", "settings">>, pc |-> "commands"]
      [] outcome = "ok"    -> [queue |-> <<"settings">>, pc |-> "commands"]
AfterConnect(outcome) ==
    CASE outcome = "raise" -> [queue |-> <<"exception while connecting">>, pc |-> "done"]
      [] outcome = "falsy" -> [queue |-> <<"connect failed">>, pc |-> "done"]
      [] outcome = "ok"    -> [queue |-> <<"settings">>, pc |-> "commands"]

\* lines 126-151: the records of the de-duplicated list that are turned into
\* requests for the device, in the list's order
\* (mutant: a `break` at the poison pill)
RequestsOfBreakAtPill(dedupped) ==
    IF \E i \in 1..Len(dedupped) : dedupped[i] = None
    THEN SubSeq(dedupped, 1,
                (CHOOSE i \in 1..Len(dedupped) : dedupped[i] = None) - 1)
    ELSE dedupped
RequestsOf(dedupped) ==
    LET IsCommand(record) == record # None
    IN  SelectSeq(dedupped, IsCommand)

\* lines 148-149: the device-count hint after the batch
DeviceCountAfter(dedupped, current) ==
    IF \E i \in 1..Len(dedupped) : dedupped[i].setting = "num_connected_devices"
    THEN (CHOOSE r \in Range(dedupped) : r.setting = "num_connected_devices").value
    ELSE current

\* lines 180-212: the response published for an acquisition result, if any
\* (mutant: an error response is flagged as a poison pill too)
PublishedErrorPoisoned(r) ==
    IF r.keep_alive THEN <<r>>
    ELSE IF r.error_msg # ""
         THEN <<[r EXCEPT !.data = IF r.data = "None" THEN "ReadingEmpty" ELSE r.data,
                          !.poison_pill = TRUE]>>
    ELSE IF r.data = "None" THEN <<>>
    ELSE IF r.data \in {"False", "ReadingFailure"}
         THEN <<[r EXCEPT !.poison_pill = TRUE]>>
    ELSE IF r.data = "ReadingSpectrum" THEN <<r>>
    ELSE <<>>
Published(r) ==
    IF r.keep_alive THEN <<r>>
    ELSE IF r.error_msg # ""
         THEN <<[r EXCEPT !.data = IF r.data = "None" THEN "ReadingEmpty" ELSE r.data]>>
    ELSE IF r.data = "None" THEN <<>>
    ELSE IF r.data \in {"False", "ReadingFailure"}
         THEN <<[r EXCEPT !.poison_pill = TRUE]>>
    ELSE IF r.data = "ReadingSpectrum" THEN <<r>>
    ELSE <<>>

WorkerInit ==
    /\ wpc = "instantiate"
    /\ startup = "pending"
    /\ command_queue = <<>>
    /\ settings_queue = <<>>
    /\ response_queue = <<>>
    /\ received_poison_pill_command = FALSE
    /\ num_connected_devices = 1
    /\ reading_response = NoResponse
    /\ batch = <<>>
    /\ cycle_applied = <<>>
    /\ acquired_in_cycle = FALSE
    /\ ever_acquired = FALSE
    /\ enqueued = 0

\* the caller puts a ControlObject or the poison pill on the command queue
Enqueue ==
    /\ enqueued < MaxCommands
    /\ enqueued' = enqueued + 1
    /\ \E item \in WorkerItems : command_queue' = Append(command_queue, item)
    /\ UNCHANGED <<wpc, startup, settings_queue,
                   response_queue, received_poison_pill_command,
                   num_connected_devices, reading_response, batch,
                   cycle_applied, acquired_in_cycle, ever_acquired>>
    /\ UNCHANGED <<dedupeVars, deviceVars, setterVars>>

\* the caller takes a response off the response queue
ConsumeResponse ==
    /\ response_queue # <<>>
    /\ response_queue' = Tail(response_queue)
    /\ UNCHANGED <<wpc, startup, command_queue,
                   settings_queue, received_poison_pill_command,
                   num_connected_devices, reading_response, batch,
                   cycle_applied, acquired_in_cycle, ever_acquired, enqueued>>
    /\ UNCHANGED <<dedupeVars, deviceVars, setterVars>>

\* lines 68-89: instantiate the backend (every backend is driven through
\* handle_requests alike, so the class chosen is not part of the state)
Instantiate ==
    /\ wpc = "instantiate"
    /\ \E raised \in BOOLEAN :
          IF raised
          THEN /\ settings_queue' = settings_queue \o InstantiateFailed.queue
               /\ wpc' = InstantiateFailed.pc
               /\ startup' = "instantiate raised"
          ELSE /\ wpc' = "connect"
               /\ UNCHANGED <<settings_queue, startup>>
    /\ UNCHANGED <<command_queue, response_queue,
                   received_poison_pill_command, num_connected_devices,
                   reading_response, batch, cycle_applied,
                   acquired_in_cycle, ever_acquired, enqueued>>
    /\ UNCHANGED <<dedupeVars, deviceVars, setterVars>>

\* lines 91-118: the connect request and the one-shot settings message
Connect ==
    /\ wpc = "connect"
    /\ \E outcome \in {"raise", "falsy", "ok"} :
          /\ settings_queue' = settings_queue \o AfterConnect(outcome).queue
          /\ wpc' = AfterConnect(outcome).pc
          /\ startup' = outcome
    /\ UNCHANGED <<command_queue, response_queue,
                   received_poison_pill_command, num_connected_devices,
                   reading_response, batch, cycle_applied,
                   acquired_in_cycle, ever_acquired, enqueued>>
    /\ UNCHANGED <<dedupeVars, deviceVars, setterVars>>

\* lines 121-158: drain and de-duplicate the command queue, apply what is
\* left, and leave the loop on a poison pill.  An exception out of dedupe is
\* caught nowhere: it ends the thread.
CycleCommands ==
    /\ wpc = "commands"
    /\ LET dedupped == Dedupe(command_queue)
           pill == None \in Range(dedupped.keep)
       IN  /\ batch' = command_queue
           /\ command_queue' = dedupped.left
           /\ acquired_in_cycle' = FALSE
           /\ IF dedupped.raised
              THEN /\ wpc' = "crashed"
                   /\ cycle_applied' = <<>>
                   /\ UNCHANGED <<received_poison_pill_command,
                                  num_connected_devices>>
              ELSE /\ cycle_applied' = RequestsOf(dedupped.keep)
                   /\ num_connected_devices' =
                          DeviceCountAfter(RequestsOf(dedupped.keep),
                                           num_connected_devices)
                   /\ received_poison_pill_command' = pill
                   /\ wpc' = IF pill THEN "done" ELSE "acquire"
    /\ UNCHANGED <<startup, settings_queue, response_queue,
                   reading_response, ever_acquired, enqueued>>
    /\ UNCHANGED <<dedupeVars, deviceVars, setterVars>>

\* lines 164-177: one blocking acquire_data request; an exception or a
\* result that is no SpectrometerResponse goes straight to the next cycle
Acquire ==
    /\ wpc = "acquire"
    /\ Len(response_queue) <= MaxResponses
    /\ acquired_in_cycle' = TRUE
    /\ ever_acquired' = TRUE
    /\ \/ /\ wpc' = "commands"
          /\ UNCHANGED reading_response
       \/ \E r \in Responses :
             /\ reading_response' = r
             /\ wpc' = "classify"
    /\ UNCHANGED <<startup, command_queue, settings_queue,
                   response_queue, received_poison_pill_command,
                   num_connected_devices, batch, cycle_applied, enqueued>>
    /\ UNCHANGED <<dedupeVars, deviceVars, setterVars>>

\* lines 178-212: classify the result and publish it; put_nowait of a valid
\* spectrum may fail, which is logged
Classify ==
    /\ wpc = "classify"
    /\ \/ response_queue' = response_queue \o Published(reading_response)
       \/ /\ ~reading_response.keep_alive
          /\ reading_response.error_msg = ""
          /\ reading_response.data = "ReadingSpectrum"
          /\ UNCHANGED response_queue
    /\ wpc' = IF reading_response.keep_alive THEN "commands" ELSE "sleep"
    /\ reading_response' = NoResponse
    /\ UNCHANGED <<startup, command_queue, settings_queue,
                   received_poison_pill_command, num_connected_devices,
                   batch, cycle_applied,
                   acquired_in_cycle, ever_acquired, enqueued>>
    /\ UNCHANGED <<dedupeVars, deviceVars, setterVars>>

\* lines 214-217: time.sleep(POLLER_WAIT_SEC * num_connected_devices)
Sleep ==
    /\ wpc = "sleep"
    /\ wpc' = "commands"
    /\ UNCHANGED <<startup, command_queue, settings_queue,
                   response_queue, received_poison_pill_command,
                   num_connected_devices, reading_response, batch,
                   cycle_applied, acquired_in_cycle, ever_acquired, enqueued>>
    /\ UNCHANGED <<dedupeVars, deviceVars, setterVars>>

WorkerNext ==
    \/ Enqueue
    \/ ConsumeResponse
    \/ Instantiate
    \/ Connect
    \/ CycleCommands
    \/ Acquire
    \/ Classify
    \/ Sleep

(***************************************************************************)
(* SPIDevice: the session on the SPI bus.  One thread calls its operations *)
(* one after the other; `bus` logs the SPI transactions of the operation   *)
(* running or last run.                                                    *)
(***************************************************************************)
\* EEPROM.MAX_PAGES
MAX_PAGES == 8
\* most pixels clocked out in one acquisition
MaxPixels == 2
\* most acquire_data calls that get past the disconnect check in a session
MaxAcquisitions == 2
\* most scans to average
MaxScans == 2
\* most reads connect drains before a page while ready stays asserted
MaxDrain == 1

\* the byte pairs the sensor clocks out in this model
BytePairs == {<<18, 52>>, <<0, 1>>}             \* (0x12,0x34), (0x00,0x01)

\* what the calibration memory can hold in this model
Markers == {0, 100}

\* the values given to change_setting
DeviceValues == {1, 300}

\* the names given to change_setting: the three of init_lambdas and two
\* that it does not know
DeviceSettings ==
    {"integration_time_ms", "write_eeprom", "replace_eeprom",
     "laser_enable", "scans_to_average"}

\* one SPI transaction: the bytes written and the bytes read
BusOp(op, tx, rx) == [op |-> op, tx |-> tx, rx |-> rx]

Call(op, setting, value, page, write_array) ==
    [op |-> op, setting |-> setting, value |-> value, page |-> page,
     write_array |-> write_array]

NoCall == Call("none", "", 0, 0, <<>>)

\* how an operation ended: kind is "none", "True", "False", "Reading" or
\* "raised"
Return(kind, spectrum, session_count, sums) ==
    [kind |-> kind, spectrum |-> spectrum, session_count |-> session_count,
     sum_count |-> sums]

Returned(kind) == Return(kind, <<>>, 0, 0)

\* how many readinto transactions end the log
RECURSIVE TrailingReads(_)
TrailingReads(log) ==
    IF log = <<>> \/ log[Len(log)].op # "readinto" THEN 0
    ELSE 1 + TrailingReads(SubSeq(log, 1, Len(log) - 1))

\* __init__ (lines 31-92) for a device whose calibration memory holds
\* `marker`, with settings.state.scans_to_average = scans
DeviceInitWith(marker, scans) ==
    /\ dpc = "idle"
    /\ last_call = NoCall
    /\ returned = Returned("none")
    /\ bus = <<>>
    /\ disconnect = FALSE
    /\ acquiring = FALSE
    /\ trigger = FALSE
    /\ ready = FALSE
    /\ integration_time_ms = 0
    /\ scans_to_average = scans
    /\ active_pixels_horizontal = 0
    /\ summed_spectra = <<>>
    /\ sum_count = 0
    /\ session_reading_count = 0
    /\ failure_count = 0
    /\ spectra = <<>>
    /\ eeprom_pages = <<>>
    /\ parse_calls = <<>>
    /\ eeprom_marker = marker
    /\ acquired = <<>>
    /\ started = 0
    /\ all_returned = TRUE

\* no SPIDevice is in use (the worker is modelled against the device
\* behind handle_requests)
DeviceIdle ==
    /\ dpc = "unused"
    /\ last_call = NoCall
    /\ returned = Returned("none")
    /\ bus = <<>>
    /\ disconnect = FALSE
    /\ acquiring = FALSE
    /\ trigger = FALSE
    /\ ready = FALSE
    /\ integration_time_ms = 0
    /\ scans_to_average = 1
    /\ active_pixels_horizontal = 0
    /\ summed_spectra = <<>>
    /\ sum_count = 0
    /\ session_reading_count = 0
    /\ failure_count = 0
    /\ spectra = <<>>
    /\ eeprom_pages = <<>>
    /\ parse_calls = <<>>
    /\ eeprom_marker = 0
    /\ acquired = <<>>
    /\ started = 0
    /\ all_returned = TRUE

(***************************************************************************)
(* SPIDevice.connect and EEPROMReadPage.                                   *)
(***************************************************************************)
\* the 74 bytes page `page` of the calibration memory answers with
PageBytes(marker, page) ==
    [j \in 1..74 |-> (marker + 16 * page + j - 1) % 256]

\* EEPROMReadPage, line 167: [0x3C, 0x00, 0x02, 0xB0, 0x40 + page, 0xFF, 0x3E]
PageSelectFrame(page) == <<60, 0, 2, 176, 64 + page, 255, 62>>

\* EEPROMReadPage, line 170: [0x3C, 0x00, 0x01, 0x31, 0xFF, 0x3E]
PageReadFrame == <<60, 0, 1, 49, 255, 62>>

\* EEPROMReadPage (lines 164-172): its two transactions
EEPROMReadPageOps(marker, page) ==
    << BusOp("write", PageSelectFrame(page), <<>>),
       BusOp("write_readinto", PageReadFrame, PageBytes(marker, page)) >>

\* connect, line 103: page[9:74]
\* (mutant: the slice starts one byte early)
CalibrationSliceFrom8(page) == SubSeq(page, 9, 74)
CalibrationSlice(page) == SubSeq(page, 10, 74)

\* connect, line 98: `while self.ready.value` keeps reading and dropping two
\* bytes for as long as the ready line reads asserted
\* (mutant: `while not self.ready.value`)
DrainsOnNotReady(value) == ~value
DrainsOn(value) == value

\* the variables a call of connect leaves alone
ConnectFrame ==
    UNCHANGED <<disconnect, acquiring, trigger, scans_to_average,
                summed_spectra, sum_count, session_reading_count,
                failure_count, spectra, eeprom_marker, acquired, started,
                all_returned, dedupeVars, workerVars, setterVars>>

\* connect, lines 94-96: called once in a session
ConnectCall ==
    /\ dpc = "idle"
    /\ last_call.op # "connect"
    /\ last_call' = Call("connect", "", 0, 0, <<>>)
    /\ returned' = Returned("none")
    /\ bus' = <<>>
    /\ eeprom_pages' = <<>>
    /\ dpc' = "connect"
    /\ UNCHANGED <<ready, integration_time_ms, active_pixels_horizontal,
                   parse_calls>>
    /\ ConnectFrame

\* lines 97-99: ready is asserted, two bytes are read and dropped (the log
\* does not keep them)
ConnectDrain ==
    /\ dpc = "connect"
    /\ Len(eeprom_pages) < MAX_PAGES
    /\ TrailingReads(bus) < MaxDrain
    /\ \E value \in BOOLEAN :
          /\ DrainsOn(value)
          /\ ready' = value
    /\ bus' = Append(bus, BusOp("readinto", <<>>, <<>>))
    /\ UNCHANGED <<dpc, last_call, returned, integration_time_ms,
                   active_pixels_horizontal, eeprom_pages, parse_calls>>
    /\ ConnectFrame

\* lines 98-102: ready is not asserted, the next page is read
ConnectReadPage ==
    /\ dpc = "connect"
    /\ Len(eeprom_pages) < MAX_PAGES
    /\ \E value \in BOOLEAN :
          /\ ~DrainsOn(value)
          /\ ready' = value
    /\ bus' = bus \o EEPROMReadPageOps(eeprom_marker, Len(eeprom_pages))
    /\ eeprom_pages' =
           Append(eeprom_pages, PageBytes(eeprom_marker, Len(eeprom_pages)))
    /\ UNCHANGED <<dpc, last_call, returned, integration_time_ms,
                   active_pixels_horizontal, parse_calls>>
    /\ ConnectFrame

\* lines 103-104: the slices of the pages go to the parser
ConnectParse ==
    /\ dpc = "connect"
    /\ Len(eeprom_pages) = MAX_PAGES
    /\ parse_calls' =
           Append(parse_calls,
                  [i \in 1..Len(eeprom_pages) |-> CalibrationSlice(eeprom_pages[i])])
    /\ eeprom_pages' = <<>>
    /\ dpc' = "connect_parsed"
    /\ UNCHANGED <<last_call, returned, bus, ready, integration_time_ms,
                   active_pixels_horizontal>>
    /\ ConnectFrame

\* lines 105-107: the two overrides, return True
ConnectOverride ==
    /\ dpc = "connect_parsed"
    /\ active_pixels_horizontal' = 1952
    /\ integration_time_ms' = 10
    /\ returned' = Returned("True")
    /\ dpc' = "idle"
    /\ UNCHANGED <<last_call, bus, ready, eeprom_pages, parse_calls>>
    /\ ConnectFrame

ConnectNext ==
    \/ ConnectCall
    \/ ConnectDrain
    \/ ConnectReadPage
    \/ ConnectParse
    \/ ConnectOverride

(***************************************************************************)
(* SPIDevice.acquire_data and Acquire.                                     *)
(***************************************************************************)
\* lines 115-117 and 223-224: the disconnect checks at entry; a flag set
\* between the two gives the same return value with nothing touched
\* (mutant: the checks are missing)
AbortedNever(flag) == FALSE
Aborted(flag) == flag

\* line 246: pixel = (SPIBuf[0] << 8) + SPIBuf[1]
\* (mutant: the bytes are taken low byte first)
PixelLittleEndian(b0, b1) == (b1 * 256) + b0
Pixel(b0, b1) == (b0 * 256) + b1

\* line 240: self.trigger.value = False once ready was read asserted
\* (mutant: the trigger is left high)
TriggerLeftHigh == TRUE
TriggerReleased == FALSE

\* line 118
AveragingEnabled == scans_to_average > 1

\* lines 139-140 raise IndexError when the new spectrum is shorter than the
\* accumulator
SummingRaises(spectrum) ==
    /\ AveragingEnabled
    /\ sum_count # 0
    /\ Len(spectrum) < Len(summed_spectra)

\* lines 134-140: the accumulator after a spectrum (float() of a 16-bit
\* integer is that integer); where the summing raises, the elements before
\* the missing one have been added
\* (mutant: the first sample is not copied, the accumulator starts from the
\* second)
SummedAfterSkipFirst(spectrum) ==
    IF ~AveragingEnabled THEN summed_spectra
    ELSE IF sum_count = 0 THEN [i \in 1..Len(spectrum) |-> 0]
    ELSE [i \in 1..Len(summed_spectra) |->
             IF i <= Len(spectrum)
             THEN summed_spectra[i] + spectrum[i]
             ELSE summed_spectra[i]]
SummedAfter(spectrum) ==
    IF ~AveragingEnabled THEN summed_spectra
    ELSE IF sum_count = 0 THEN spectrum
    ELSE [i \in 1..Len(summed_spectra) |->
             IF i <= Len(spectrum)
             THEN summed_spectra[i] + spectrum[i]
             ELSE summed_spectra[i]]

\* line 141
SumCountAfter == IF AveragingEnabled THEN sum_count + 1 ELSE sum_count

\* the variables no step of acquire_data touches
AcquireFrame ==
    UNCHANGED <<disconnect, integration_time_ms, scans_to_average,
                active_pixels_horizontal, eeprom_pages, parse_calls,
                eeprom_marker, dedupeVars, workerVars, setterVars>>

\* self.disconnect = True (line 110).  The attribute of line 49 hides the
\* method on an instance, so the flag is set by SPIDevice.disconnect(device)
\* or by assigning the attribute, at any moment of the session
SetDisconnect ==
    /\ dpc # "unused"
    /\ ~disconnect
    /\ disconnect' = TRUE
    /\ UNCHANGED <<dpc, last_call, returned, bus, acquiring, trigger, ready,
                   integration_time_ms, scans_to_average,
                   active_pixels_horizontal, summed_spectra, sum_count,
                   session_reading_count, failure_count, spectra,
                   eeprom_pages, parse_calls, eeprom_marker, acquired,
                   started, all_returned, dedupeVars, workerVars, setterVars>>

\* acquire_data up to the trigger (lines 113-126, 222-230): return False
\* when disconnecting, else set acquiring and raise the trigger
AcquireData ==
    /\ dpc = "idle"
    /\ last_call' = Call("acquire_data", "", 0, 0, <<>>)
    /\ bus' = <<>>
    /\ IF Aborted(disconnect)
       THEN /\ returned' = Returned("False")
            /\ all_returned' = FALSE
            /\ UNCHANGED <<dpc, acquiring, trigger, spectra, started>>
       ELSE /\ started < MaxAcquisitions
            /\ started' = started + 1
            /\ returned' = Returned("none")
            /\ acquiring' = TRUE
            /\ spectra' = <<>>
            /\ trigger' = TRUE
            /\ dpc' = "acq_wait"
            /\ UNCHANGED all_returned
    /\ UNCHANGED <<ready, summed_spectra, sum_count, session_reading_count,
                   failure_count, acquired>>
    /\ AcquireFrame

\* lines 234-236: ready is not asserted yet
AcquireWait ==
    /\ dpc = "acq_wait"
    /\ ready' = FALSE
    /\ UNCHANGED <<dpc, last_call, returned, bus, acquiring, trigger,
                   summed_spectra, sum_count, session_reading_count,
                   failure_count, spectra, acquired, started, all_returned>>
    /\ AcquireFrame

\* lines 234-240: ready is asserted, the trigger is released
AcquireReady ==
    /\ dpc = "acq_wait"
    /\ ready' = TRUE
    /\ trigger' = TriggerReleased
    /\ dpc' = "acq_read"
    /\ UNCHANGED <<last_call, returned, bus, acquiring, summed_spectra,
                   sum_count, session_reading_count, failure_count, spectra,
                   acquired, started, all_returned>>
    /\ AcquireFrame

\* lines 244-247: ready is asserted, two bytes are read and make a pixel
AcquireReadPixel ==
    /\ dpc = "acq_read"
    /\ Len(spectra) < MaxPixels
    /\ ready' = TRUE
    /\ \E pair \in BytePairs :
          /\ bus' = Append(bus, BusOp("readinto", <<>>, pair))
          /\ spectra' = Append(spectra, Pixel(pair[1], pair[2]))
    /\ UNCHANGED <<dpc, last_call, returned, acquiring, trigger,
                   summed_spectra, sum_count, session_reading_count,
                   failure_count, acquired, started, all_returned>>
    /\ AcquireFrame

\* lines 244-245, 129-131: ready is asserted and the read raises USBError,
\* which leaves Acquire; acquire_data counts the failure, and its log line
\* reads self.device, which SPIDevice does not have: AttributeError leaves
\* acquire_data
AcquireReadFails ==
    /\ dpc = "acq_read"
    /\ Len(spectra) < MaxPixels
    /\ ready' = TRUE
    /\ failure_count' = failure_count + 1
    /\ returned' = Returned("raised")
    /\ all_returned' = FALSE
    /\ spectra' = <<>>
    /\ dpc' = "idle"
    /\ UNCHANGED <<last_call, bus, acquiring, trigger, summed_spectra,
                   sum_count, session_reading_count, acquired, started>>
    /\ AcquireFrame

\* lines 244, 249-251, 127-148: ready is released, Acquire returns the
\* spectrum ([] == False is false in Python, so an empty one goes on too),
\* acquire_data sums it when averaging and returns the Reading
AcquireFinish ==
    /\ dpc = "acq_read"
    /\ ready' = FALSE
    /\ acquiring' = FALSE
    /\ summed_spectra' = SummedAfter(spectra)
    /\ IF SummingRaises(spectra)
       THEN /\ returned' = Returned("raised")
            /\ all_returned' = FALSE
            /\ UNCHANGED <<sum_count, session_reading_count, acquired>>
       ELSE /\ sum_count' = SumCountAfter
            /\ session_reading_count' = session_reading_count + 1
            /\ returned' = Return("Reading", spectra,
                                  session_reading_count + 1, SumCountAfter)
            /\ acquired' = Append(acquired, spectra)
            /\ UNCHANGED all_returned
    /\ spectra' = <<>>
    /\ dpc' = "idle"
    /\ UNCHANGED <<last_call, bus, trigger, failure_count, started>>
    /\ AcquireFrame

AcquireNext ==
    \/ SetDisconnect
    \/ AcquireData
    \/ AcquireWait
    \/ AcquireReady
    \/ AcquireReadPixel
    \/ AcquireReadFails
    \/ AcquireFinish

(***************************************************************************)
(* SPIDevice.change_setting, set_integration_time_ms, write_eeprom and     *)
(* EEPROMWritePage.                                                        *)
(***************************************************************************)
\* SPIDevice.INTEGRATION_ADDRESS (0x11)
INTEGRATION_ADDRESS == 17

\* init_lambdas (lines 253-260) and self.lambdas.get(setting, None): the
\* method a setting name is dispatched to, "none" for a name not in the
\* table
\* (mutant: a name not in the table falls through to the integration time)
LambdasWithDefault(setting) ==
    CASE setting = "write_eeprom"        -> "write_eeprom"
      [] setting = "replace_eeprom"      -> "write_eeprom"
      [] OTHER                           -> "set_integration_time_ms"
Lambdas(setting) ==
    CASE setting = "write_eeprom"        -> "write_eeprom"
      [] setting = "replace_eeprom"      -> "write_eeprom"
      [] setting = "integration_time_ms" -> "set_integration_time_ms"
      [] OTHER                           -> "none"

\* SPIWrite (lines 181-193): txData[1] = value >> 8,
\* txData[0] = value - (txData[1] << 8),
\* command = [0x3C, 0x00, 0x03, address + 0x80, txData[0], txData[1], 0xFF, 0x3E]
SPIWriteFrame(value, address) ==
    <<60, 0, 3, address + 128, value - ((value \div 256) * 256),
      value \div 256, 255, 62>>

\* a payload of `len` bytes
Payload(len, fill) == [i \in 1..len |-> (fill + i) % 256]

\* the payloads given to EEPROMWritePage
WriteArrays == {Payload(len, fill) : len \in {0, 63, 64, 65}, fill \in {0, 7}}

\* the pages given to EEPROMWritePage
WritePages == {0, MAX_PAGES - 1}

\* what generate_write_buffers renders: MAX_PAGES buffers of 64 bytes, or a
\* set in which the third is one byte short
WriteBufferSets ==
    { [p \in 1..MAX_PAGES |-> Payload(64, 16 * p)],
      [p \in 1..MAX_PAGES |-> Payload(IF p = 3 THEN 63 ELSE 64, 16 * p)] }

\* EEPROMWritePage, lines 200-206: write_array[x] for x in range(0, 64)
\* raises IndexError on a payload shorter than 64
\* (mutant: the loop stops at the end of the payload)
PayloadTooShortNever(write_array) == FALSE
PayloadTooShort(write_array) == Len(write_array) < 64

\* lines 198-210: EEPROMWrCmd[0:3] = <4 bytes> makes the buffer 71 long with
\* the header in 0..3; the payload goes to 4..67, 0xFF 0x3E to 68..69;
\* SPI.write(EEPROMWrCmd, 0, 70) sends bytes 0..69
\* (mutant: the header takes three bytes and the payload starts at 3)
EEPROMWriteFramePayloadAt3(write_array) ==
    [i \in 1..70 |->
        IF i <= 3 THEN <<60, 0, 65>>[i]
        ELSE IF i <= 67
             THEN (IF i - 3 <= Len(write_array) THEN write_array[i - 3] ELSE 0)
        ELSE <<0, 255, 62>>[i - 67]]
EEPROMWriteFrame(write_array) ==
    [i \in 1..70 |->
        IF i <= 4 THEN <<60, 0, 65, 177>>[i]
        ELSE IF i <= 68
             THEN (IF i - 4 <= Len(write_array) THEN write_array[i - 4] ELSE 0)
        ELSE <<255, 62>>[i - 68]]

\* line 211: [0x3C, 0x00, 0x02, 0xB0, 0x80 + page, 0xFF, 0x3E]
PageCommitFrame(page) == <<60, 0, 2, 176, 128 + page, 255, 62>>

\* EEPROMWritePage (lines 195-213): its transactions, none when it raises
EEPROMWritePageOps(page, write_array) ==
    IF PayloadTooShort(write_array) THEN <<>>
    ELSE << BusOp("write", EEPROMWriteFrame(write_array), <<>>),
            BusOp("write", PageCommitFrame(page), <<>>) >>

\* write_eeprom, lines 158-159: the pages in order, up to one that raises
RECURSIVE WritePagesFrom(_, _)
WritePagesFrom(write_buffers, page) ==
    IF page = MAX_PAGES THEN [ops |-> <<>>, raised |-> FALSE]
    ELSE IF PayloadTooShort(write_buffers[page + 1])
         THEN [ops |-> <<>>, raised |-> TRUE]
    ELSE LET rest == WritePagesFrom(write_buffers, page + 1)
         IN  [ops |-> EEPROMWritePageOps(page, write_buffers[page + 1]) \o rest.ops,
              raised |-> rest.raised]

\* the sessions change_setting and EEPROMWritePage are called in: new, one
\* reading taken without averaging, one reading summed
SessionsSeen ==
    { [summed |-> <<>>, sums |-> 0, readings |-> 0, scans |-> 1],
      [summed |-> <<>>, sums |-> 0, readings |-> 1, scans |-> 1],
      [summed |-> <<4660, 1>>, sums |-> 1, readings |-> 1, scans |-> 2] }

\* __init__ followed by the acquisitions of `session`; `failed` when a
\* further one ended in a USBError (AcquireReadFails)
SettingsInit ==
    \E session \in SessionsSeen, failed \in BOOLEAN :
        /\ dpc = "idle"
        /\ last_call = NoCall
        /\ returned = Returned("none")
        /\ bus = <<>>
        /\ disconnect = FALSE
        /\ acquiring = failed
        /\ trigger = FALSE
        /\ ready = failed
        /\ integration_time_ms = 0
        /\ scans_to_average = session.scans
        /\ active_pixels_horizontal = 0
        /\ summed_spectra = session.summed
        /\ sum_count = session.sums
        /\ session_reading_count = session.readings
        /\ failure_count = IF failed THEN 1 ELSE 0
        /\ spectra = <<>>
        /\ eeprom_pages = <<>>
        /\ parse_calls = <<>>
        /\ eeprom_marker = 0
        /\ acquired = <<>>
        /\ started = session.readings + (IF failed THEN 1 ELSE 0)
        /\ all_returned = ~failed

\* the variables no setting touches
SettingsFrame ==
    UNCHANGED <<disconnect, acquiring, trigger, ready, scans_to_average,
                active_pixels_horizontal, summed_spectra, sum_count,
                session_reading_count, failure_count, spectra, eeprom_pages,
                parse_calls, eeprom_marker, acquired, started, all_returned,
                dedupeVars, workerVars, setterVars>>

\* change_setting (lines 215-220), with write_eeprom (lines 150-162) when
\* the name selects it; the handler's result is dropped and True returned
ChangeSetting(setting, value) ==
    /\ dpc = "idle"
    /\ last_call' = Call("change_setting", setting, value, 0, <<>>)
    /\ IF Lambdas(setting) = "none"
       THEN /\ bus' = <<>>
            /\ returned' = Returned("True")
            /\ UNCHANGED dpc
       ELSE IF Lambdas(setting) = "set_integration_time_ms"
       THEN /\ bus' = <<>>
            /\ returned' = Returned("none")
            /\ dpc' = "set_wait"
       ELSE \/ /\ bus' = <<>>           \* generate_write_buffers raised
               /\ returned' = Returned("True")
               /\ UNCHANGED dpc
            \/ \E write_buffers \in WriteBufferSets :
                  LET written == WritePagesFrom(write_buffers, 0)
                  IN  /\ bus' = written.ops
                      /\ returned' = Returned(IF written.raised
                                              THEN "raised" ELSE "True")
                      /\ UNCHANGED dpc
    /\ UNCHANGED integration_time_ms
    /\ SettingsFrame

\* set_integration_time_ms, lines 175-177: an acquisition is in progress
SetIntegrationSleep ==
    /\ dpc = "set_wait"
    /\ acquiring
    /\ UNCHANGED <<dpc, last_call, returned, bus, integration_time_ms>>
    /\ SettingsFrame

\* set_integration_time_ms, lines 175-179, and change_setting's return
SetIntegrationWrite ==
    /\ dpc = "set_wait"
    /\ ~acquiring
    /\ bus' = <<BusOp("write",
                      SPIWriteFrame(last_call.value, INTEGRATION_ADDRESS), <<>>)>>
    /\ integration_time_ms' = last_call.value
    /\ returned' = Returned("True")
    /\ dpc' = "idle"
    /\ UNCHANGED last_call
    /\ SettingsFrame

\* EEPROMWritePage (lines 195-213)
EEPROMWritePage(page, write_array) ==
    /\ dpc = "idle"
    /\ last_call' = Call("EEPROMWritePage", "", 0, page, write_array)
    /\ bus' = EEPROMWritePageOps(page, write_array)
    /\ returned' = Returned(IF PayloadTooShort(write_array)
                            THEN "raised" ELSE "None")
    /\ UNCHANGED <<dpc, integration_time_ms>>
    /\ SettingsFrame

SettingsNext ==
    \/ \E setting \in DeviceSettings, value \in DeviceValues :
          ChangeSetting(setting, value)
    \/ SetIntegrationSleep
    \/ SetIntegrationWrite
    \/ \E page \in WritePages, write_array \in WriteArrays :
          EEPROMWritePage(page, write_array)

(***************************************************************************)
(* A second thread calling set_integration_time_ms while the first runs    *)
(* acquire_data: each read of self.acquiring, each bus transaction and     *)
(* each assignment is a step of its own.                                   *)
(***************************************************************************)
\* most calls of set_integration_time_ms by the second thread
MaxSetCalls == 2

\* no second thread
SetterIdle ==
    /\ spc = "idle"
    /\ set_value = 0
    /\ set_calls = 0

\* the variables set_integration_time_ms leaves alone
SetterFrame ==
    UNCHANGED <<dpc, last_call, returned, disconnect, acquiring, trigger,
                ready, scans_to_average, active_pixels_horizontal,
                summed_spectra, sum_count, session_reading_count,
                failure_count, spectra, eeprom_pages, parse_calls,
                eeprom_marker, acquired, started, all_returned,
                dedupeVars, workerVars>>

\* set_integration_time_ms(value) is called (line 174)
SetterCall ==
    /\ spc = "idle"
    /\ set_calls < MaxSetCalls
    /\ set_calls' = set_calls + 1
    /\ \E value \in DeviceValues : set_value' = value
    /\ spc' = "loop"
    /\ UNCHANGED <<bus, integration_time_ms>>
    /\ SetterFrame

\* lines 175-177: self.acquiring reads True, sleep and read again
SetterSleep ==
    /\ spc = "loop"
    /\ acquiring
    /\ UNCHANGED <<spc, set_value, set_calls, bus, integration_time_ms>>
    /\ SetterFrame

\* line 175: self.acquiring reads False, the loop is left
SetterPass ==
    /\ spc = "loop"
    /\ ~acquiring
    /\ spc' = "write"
    /\ UNCHANGED <<set_value, set_calls, bus, integration_time_ms>>
    /\ SetterFrame

\* line 178, SPIWrite (181-193): the register frame goes out on the bus
SetterWrite ==
    /\ spc = "write"
    /\ bus' = Append(bus, BusOp("write",
                                SPIWriteFrame(set_value, INTEGRATION_ADDRESS),
                                <<>>))
    /\ spc' = "store"
    /\ UNCHANGED <<set_value, set_calls, integration_time_ms>>
    /\ SetterFrame

\* line 179
SetterStore ==
    /\ spc = "store"
    /\ integration_time_ms' = set_value
    /\ spc' = "idle"
    /\ UNCHANGED <<set_value, set_calls, bus>>
    /\ SetterFrame

RaceNext ==
    \/ AcquireData
    \/ AcquireWait
    \/ AcquireReady
    \/ AcquireReadPixel
    \/ AcquireReadFails
    \/ AcquireFinish
    \/ SetterCall
    \/ SetterSleep
    \/ SetterPass
    \/ SetterWrite
    \/ SetterStore

(***************************************************************************)
(* WrapperWorker.run driving an SPIDevice: the loop of lines 120-217 after *)
(* a successful connect, each request a blocking call of the worker thread *)
(* into the device.  handle_requests is not part of the sources; it hands  *)
(* a setting request to change_setting and an acquire_data request to      *)
(* acquire_data, wraps what that returns in a response and lets an         *)
(* exception through.                                                      *)
(***************************************************************************)
\* what handle_requests gives the worker for a result of acquire_data
HandleAcquire(result) ==
    CASE result = "Reading" -> Response(FALSE, "", "ReadingSpectrum")
      [] result = "False"   -> Response(FALSE, "", "False")

\* the bus log connect leaves when no page needed a drain
ConnectedBus(marker) ==
    LET ops[i \in 0..MAX_PAGES] ==
            IF i = 0 THEN <<>>
            ELSE ops[i - 1] \o EEPROMReadPageOps(marker, i - 1)
    IN  ops[MAX_PAGES]

\* the byte pairs one acquisition of the session clocks out
SessionReads ==
    { << <<18, 52>>, <<0, 1>> >>, << <<0, 1>>, <<0, 1>> >> }

\* run at line 120 for the first time: the device connected, the settings
\* message put
SessionInit ==
    /\ wpc = "commands"
    /\ startup = "ok"
    /\ command_queue = <<>>
    /\ settings_queue = AfterConnect("ok").queue
    /\ response_queue = <<>>
    /\ received_poison_pill_command = FALSE
    /\ num_connected_devices = 1
    /\ reading_response = NoResponse
    /\ batch = <<>>
    /\ cycle_applied = <<>>
    /\ acquired_in_cycle = FALSE
    /\ ever_acquired = FALSE
    /\ enqueued = 0
    /\ dpc = "idle"
    /\ last_call = Call("connect", "", 0, 0, <<>>)
    /\ returned = Returned("True")
    /\ bus = ConnectedBus(0)
    /\ disconnect = FALSE
    /\ acquiring = FALSE
    /\ trigger = FALSE
    /\ ready = FALSE
    /\ integration_time_ms = 10
    /\ scans_to_average \in 1..MaxScans
    /\ active_pixels_horizontal = 1952
    /\ summed_spectra = <<>>
    /\ sum_count = 0
    /\ session_reading_count = 0
    /\ failure_count = 0
    /\ spectra = <<>>
    /\ eeprom_pages = <<>>
    /\ parse_calls =
           << [i \in 1..MAX_PAGES |-> CalibrationSlice(PageBytes(0, i - 1))] >>
    /\ eeprom_marker = 0
    /\ acquired = <<>>
    /\ started = 0
    /\ all_returned = TRUE

\* the variables no step of the loop touches
SessionFrame ==
    UNCHANGED <<startup, settings_queue, enqueued, dpc, disconnect,
                scans_to_average, active_pixels_horizontal, spectra,
                eeprom_pages, parse_calls, eeprom_marker, dedupeVars,
                setterVars>>

\* lines 121-158 with the device's change_setting (215-220) behind each
\* request: a name the device does not know changes nothing;
\* integration_time_ms writes the register (174-179), and spins for ever in
\* `while self.acquiring` when the flag is set, since the thread that would
\* clear it is the one that spins
SessionCommands ==
    /\ wpc = "commands"
    /\ LET dedupped == Dedupe(command_queue)
           records  == dedupped.keep
           IsWrite(record) ==
               /\ record # None
               /\ Lambdas(record.setting) = "set_integration_time_ms"
           blocked  == acquiring /\ \E i \in 1..Len(records) : IsWrite(records[i])
           reached  ==
               IF blocked
               THEN SubSeq(records, 1,
                           (CHOOSE i \in 1..Len(records) : IsWrite(records[i])) - 1)
               ELSE records
           requests == RequestsOf(reached)
           writes   == SelectSeq(requests, IsWrite)
       IN  /\ batch' = command_queue
           /\ command_queue' = dedupped.left
           /\ acquired_in_cycle' = FALSE
           /\ IF dedupped.raised
              THEN /\ wpc' = "crashed"
                   /\ cycle_applied' = <<>>
                   /\ UNCHANGED <<received_poison_pill_command,
                                  num_connected_devices, last_call, returned,
                                  bus, integration_time_ms>>
              ELSE /\ cycle_applied' = requests
                   /\ num_connected_devices' =
                          DeviceCountAfter(requests, num_connected_devices)
                   /\ received_poison_pill_command' = (None \in Range(reached))
                   /\ wpc' = IF blocked THEN "set_wait"
                             ELSE IF None \in Range(reached) THEN "done"
                             ELSE "acquire"
                   /\ integration_time_ms' =
                          IF writes = <<>> THEN integration_time_ms
                          ELSE writes[Len(writes)].value
                   /\ IF blocked
                      THEN /\ last_call' = Call("change_setting",
                                                "integration_time_ms",
                                                records[Len(reached) + 1].value,
                                                0, <<>>)
                           /\ returned' = Returned("none")
                           /\ bus' = <<>>
                      ELSE IF requests = <<>>
                      THEN UNCHANGED <<last_call, returned, bus>>
                      ELSE /\ last_call' = Call("change_setting",
                                                requests[Len(requests)].setting,
                                                requests[Len(requests)].value,
                                                0, <<>>)
                           /\ returned' = Returned("True")
                           /\ bus' = IF IsWrite(requests[Len(requests)])
                                     THEN <<BusOp("write",
                                                  SPIWriteFrame(
                                                      requests[Len(requests)].value,
                                                      INTEGRATION_ADDRESS),
                                                  <<>>)>>
                                     ELSE <<>>
    /\ UNCHANGED <<response_queue, reading_response, ever_acquired,
                   acquiring, trigger, ready, summed_spectra, sum_count,
                   session_reading_count, failure_count, acquired, started,
                   all_returned>>
    /\ SessionFrame

\* SPIDevice.py 175-177 in the worker thread: acquiring is set and stays set
SessionSpin ==
    /\ wpc = "set_wait"
    /\ acquiring
    /\ UNCHANGED <<dedupeVars, workerVars, deviceVars, setterVars>>

\* lines 164-178 with acquire_data (SPIDevice.py 113-148) returning a
\* Reading, or raising while it sums
SessionAcquireReturns ==
    /\ wpc = "acquire"
    /\ Len(response_queue) <= MaxResponses
    /\ started < MaxAcquisitions
    /\ started' = started + 1
    /\ acquired_in_cycle' = TRUE
    /\ ever_acquired' = TRUE
    /\ last_call' = Call("acquire_data", "", 0, 0, <<>>)
    /\ acquiring' = FALSE
    /\ trigger' = FALSE
    /\ ready' = FALSE
    /\ \E reads \in SessionReads :
          LET spectrum == [i \in 1..Len(reads) |-> Pixel(reads[i][1], reads[i][2])]
          IN  /\ bus' = [i \in 1..Len(reads) |-> BusOp("readinto", <<>>, reads[i])]
              /\ summed_spectra' = SummedAfter(spectrum)
              /\ IF SummingRaises(spectrum)
                 THEN /\ returned' = Returned("raised")
                      /\ all_returned' = FALSE
                      /\ wpc' = "commands"
                      /\ UNCHANGED <<sum_count, session_reading_count,
                                     acquired, reading_response>>
                 ELSE /\ sum_count' = SumCountAfter
                      /\ session_reading_count' = session_reading_count + 1
                      /\ returned' = Return("Reading", spectrum,
                                            session_reading_count + 1,
                                            SumCountAfter)
                      /\ acquired' = Append(acquired, spectrum)
                      /\ reading_response' = HandleAcquire("Reading")
                      /\ wpc' = "classify"
                      /\ UNCHANGED all_returned
    /\ UNCHANGED <<command_queue, response_queue,
                   received_poison_pill_command, num_connected_devices,
                   batch, cycle_applied, integration_time_ms, failure_count>>
    /\ SessionFrame

\* lines 164-174 with a bus read of Acquire raising USBError (SPIDevice.py
\* 244-245): acquire_data counts it (129-130), the AttributeError of its
\* log line (131) reaches run's handler, which goes to the next cycle
SessionAcquireFails ==
    /\ wpc = "acquire"
    /\ started < MaxAcquisitions
    /\ started' = started + 1
    /\ acquired_in_cycle' = TRUE
    /\ ever_acquired' = TRUE
    /\ last_call' = Call("acquire_data", "", 0, 0, <<>>)
    /\ bus' = <<>>
    /\ acquiring' = TRUE
    /\ trigger' = FALSE
    /\ ready' = TRUE
    /\ failure_count' = failure_count + 1
    /\ returned' = Returned("raised")
    /\ all_returned' = FALSE
    /\ wpc' = "commands"
    /\ UNCHANGED <<command_queue, response_queue,
                   received_poison_pill_command, num_connected_devices,
                   reading_response, batch, cycle_applied,
                   integration_time_ms, summed_spectra, sum_count,
                   session_reading_count, acquired>>
    /\ SessionFrame

SessionNext ==
    \/ Enqueue
    \/ ConsumeResponse
    \/ SessionCommands
    \/ SessionSpin
    \/ SessionAcquireReturns
    \/ SessionAcquireFails
    \/ Classify
    \/ Sleep

(***************************************************************************)
(* The specifications.                                                     *)
(***************************************************************************)
vars == <<dedupeVars, workerVars, deviceVars, setterVars>>

SpecDedupeInit == DedupeInit /\ WorkerInit /\ DeviceIdle /\ SetterIdle

SpecDedupe == SpecDedupeInit /\ [][DedupeNext]_vars

SpecInit == WorkerInit /\ DedupeIdle /\ DeviceIdle /\ SetterIdle

Spec == SpecInit /\ [][WorkerNext]_vars

SpecAcquireInit ==
    /\ \E scans \in 1..MaxScans : DeviceInitWith(0, scans)
    /\ DedupeIdle
    /\ WorkerInit
    /\ SetterIdle

SpecAcquire == SpecAcquireInit /\ [][AcquireNext]_vars

SpecSettingsInit == SettingsInit /\ DedupeIdle /\ WorkerInit /\ SetterIdle

SpecSettings == SpecSettingsInit /\ [][SettingsNext]_vars

SpecRaceInit ==
    /\ DeviceInitWith(0, 1)
    /\ DedupeIdle
    /\ WorkerInit
    /\ SetterIdle

SpecRace == SpecRaceInit /\ [][RaceNext]_vars

SpecSessionInit == SessionInit /\ DedupeIdle /\ SetterIdle

SpecSession == SpecSessionInit /\ [][SessionNext]_vars

SpecConnectInit ==
    /\ \E marker \in Markers : DeviceInitWith(marker, 1)
    /\ DedupeIdle
    /\ WorkerInit
    /\ SetterIdle

SpecConnect == SpecConnectInit /\ [][ConnectNext]_vars

(***************************************************************************)
(* Properties of dedupe (checked under SpecDedupe).                        *)
(***************************************************************************)
IsBatchOfSettings == None \notin Range(dd_batch)

FirstIndex(b, name) ==
    CHOOSE i \in 1..Len(b) :
        /\ b[i].setting = name
        /\ \A j \in 1..(i - 1) : b[j].setting # name

LastIndex(b, name) ==
    CHOOSE i \in 1..Len(b) :
        /\ b[i].setting = name
        /\ \A j \in (i + 1)..Len(b) : b[j].setting # name

NamesOf(s) == {s[i].setting : i \in 1..Len(s)}

\* C1: on a batch of (name, value) commands without a terminal marker,
\* dedupe returns; the list it returns has at most one entry per setting
\* name, that entry is the last command enqueued for the name, every name
\* of the batch occurs in it, and the mailbox is empty afterwards.
C1_DedupeLastValuePerName ==
    IsBatchOfSettings =>
        /\ dd_pc # "raised"
        /\ dd_pc = "returned" =>
            /\ q = <<>>
            /\ \A i, j \in 1..Len(keep) :
                   keep[i].setting = keep[j].setting => i = j
            /\ NamesOf(keep) = NamesOf(dd_batch)
            /\ \A i \in 1..Len(keep) :
                   keep[i] = dd_batch[LastIndex(dd_batch, keep[i].setting)]

C1_Witness ==
    /\ dd_pc = "returned"
    /\ IsBatchOfSettings
    /\ Len(dd_batch) = MaxBatch
    /\ Len(keep) = 2
    /\ \E i \in 1..Len(dd_batch) :
           dd_batch[i].setting = keep[2].setting /\ dd_batch[i] # keep[2]

\* C2 as stated: the entries of the result stand in the order of the first
\* occurrences of their names in the batch.
C2_FirstOccurrenceOrder ==
    (dd_pc = "returned" /\ IsBatchOfSettings) =>
        \A i, j \in 1..Len(keep) :
            i < j <=> FirstIndex(dd_batch, keep[i].setting)
                        < FirstIndex(dd_batch, keep[j].setting)

\* C2 (amended): the entries of the result stand in the order of the LAST
\* occurrences of their names in the batch: [A=1, B=2, A=3] gives
\* [B=2, A=3].
C2_LastOccurrenceOrder ==
    (dd_pc = "returned" /\ IsBatchOfSettings) =>
        \A i, j \in 1..Len(keep) :
            i < j <=> LastIndex(dd_batch, keep[i].setting)
                        < LastIndex(dd_batch, keep[j].setting)

\* the batch [A=1, B=2, A=2] has been deduped to [B=2, A=2]
C2_Witness ==
    /\ dd_pc = "returned"
    /\ dd_batch = << [setting |-> "laser_enable", value |-> 1],
                     [setting |-> "integration_time_ms", value |-> 2],
                     [setting |-> "laser_enable", value |-> 2] >>
    /\ keep = << [setting |-> "integration_time_ms", value |-> 2],
                 [setting |-> "laser_enable", value |-> 2] >>

\* C13: for a batch that holds poison pills among (or without) setting
\* commands, dedupe returns, the list it returns holds one poison pill, and
\* its setting commands are those dedupe returns for the batch without the
\* poison pills.
C13_PillsShareOneKey ==
    LET IsSetting(item) == item # None
        IsPill(item) == item = None
    IN  (dd_pc # "loop" /\ None \in Range(dd_batch)) =>
            /\ dd_pc = "returned"
            /\ Len(SelectSeq(keep, IsPill)) = 1
            /\ SelectSeq(keep, IsSetting) =
                   Dedupe(SelectSeq(dd_batch, IsSetting)).keep

(***************************************************************************)
(* Properties of the worker (checked under Spec).                          *)
(***************************************************************************)
\* the commands of a batch that are the last of their setting name
SurvivorsOf(b) ==
    {b[i] : i \in {k \in 1..Len(b) :
                      b[k] # None /\ k = LastIndex(b, b[k].setting)}}

\* C3: in a cycle whose drained batch contains the terminal marker, every
\* other command of the batch that is the last of its name, enqueued before
\* or after the marker, is handed to the device, and the loop is then over
\* (left, or ended by an exception) without an acquisition in that cycle.
C3_PillBatchAppliesSurvivors ==
    None \in Range(batch) =>
        /\ wpc \in {"done", "crashed"}
        /\ ~acquired_in_cycle
        /\ SurvivorsOf(batch) \subseteq Range(cycle_applied)

\* C8: a run puts at most one message on the settings queue and exactly one
\* once startup is over: None when instantiation raised, an error response
\* when connect raised, connect's own response when its data is falsy, the
\* settings otherwise; after a failure the worker is finished, has never
\* drained the command queue, never acquired and published no response.
C8_OneSettingsMessage ==
    /\ Len(settings_queue) <= 1
    /\ wpc \notin {"instantiate", "connect"} => Len(settings_queue) = 1
    /\ startup = "instantiate raised" => settings_queue = <<"None">>
    /\ startup = "raise" => settings_queue = <<"exception while connecting">>
    /\ startup = "falsy" => settings_queue = <<"connect failed">>
    /\ startup = "ok" => settings_queue = <<"settings">>
    /\ startup \in {"instantiate raised", "raise", "falsy"} =>
           /\ wpc = "done"
           /\ ~ever_acquired
           /\ ~acquired_in_cycle
           /\ batch = <<>>
           /\ cycle_applied = <<>>
           /\ response_queue = <<>>

\* connect returned falsy data while commands were already pending
C8_Witness ==
    /\ startup = "falsy"
    /\ wpc = "done"
    /\ settings_queue = <<"connect failed">>
    /\ command_queue # <<>>

\* C11: once connect has succeeded, the thread ends only in a cycle whose
\* batch held the poison pill, and by the path of the shutdown flag
\* (received_poison_pill_command set, break at line 158).
C11_ExitOnlyViaShutdownFlag ==
    (startup = "ok" /\ wpc \in {"done", "crashed"}) =>
        /\ wpc = "done"
        /\ received_poison_pill_command
        /\ None \in Range(batch)

\* a failure result: no keep-alive, no error text, data False or a Reading
\* whose failure is set
IsFailure(r) ==
    /\ ~r.keep_alive
    /\ r.error_msg = ""
    /\ r.data \in {"False", "ReadingFailure"}

\* C14: classifying an acquisition result adds at most one response to the
\* response queue; a failure result is added once, with poison_pill set; the
\* flag is set on no other result; a None result without error text (and not
\* a keep-alive) adds nothing; and the worker goes on to the sleep or the
\* next cycle, also after a poison-flagged response.
C14_PoisonOnlyOnFailure ==
    [][Classify =>
          LET r == reading_response
              put == SubSeq(response_queue', Len(response_queue) + 1,
                            Len(response_queue'))
          IN  /\ Len(put) <= 1
              /\ SubSeq(response_queue', 1, Len(response_queue)) = response_queue
              /\ IsFailure(r) =>
                     /\ put = <<[r EXCEPT !.poison_pill = TRUE]>>
                     /\ wpc' = "sleep"
              /\ ~IsFailure(r) => \A i \in 1..Len(put) : ~put[i].poison_pill
              /\ (~r.keep_alive /\ r.error_msg = "" /\ r.data = "None") =>
                     put = <<>>
              /\ wpc' \in {"sleep", "commands"}]_vars

\* the worker is about to acquire again while the caller has not yet taken
\* the poison-flagged response of an earlier cycle
C14_Witness ==
    /\ wpc = "acquire"
    /\ response_queue # <<>>
    /\ response_queue[1].poison_pill
    /\ response_queue[1].data = "ReadingFailure"

\* C19: a cycle that follows an acquisition attempt starts from the sleep
\* of lines 214-217: no step takes the worker from the acquisition or the
\* classification of its result straight to the next cycle.
C19_SleepBeforeNextCycle ==
    [][(wpc' = "commands" /\ wpc # "commands" /\ acquired_in_cycle') =>
          wpc = "sleep"]_vars

\* C21: no setting change is lost or reordered.  The queue is first in,
\* first out and the cycles follow one another, so the values applied for a
\* name are in the order they were enqueued as long as each cycle does this:
\* for every name among the items the cycle takes off the command queue, it
\* applies one value, the last one taken for that name (an earlier one is
\* skipped for that later one only), and it applies nothing else.
C21_NoSettingLost ==
    [][CycleCommands =>
          LET taken == SubSeq(command_queue, 1,
                              Len(command_queue) - Len(command_queue'))
              IsSetting(item) == item # None
              settings == SelectSeq(taken, IsSetting)
          IN  /\ \A name \in NamesOf(settings) :
                     LET OfName(item) == item.setting = name
                     IN  SelectSeq(cycle_applied', OfName) =
                             <<settings[LastIndex(settings, name)]>>
              /\ Range(cycle_applied') \subseteq Range(settings)]_vars

(***************************************************************************)
(* Properties of connect (checked under SpecConnect).                      *)
(***************************************************************************)
OpsOf(log, op) ==
    LET IsOp(t) == t.op = op
    IN  SelectSeq(log, IsOp)

\* C7: connect selects and reads the pages 0 .. MAX_PAGES-1 in increasing
\* order; the parser is called only after the last page, once, with
\* MAX_PAGES buffers of 65 bytes, the i-th being bytes [9,74) of the i-th
\* page read; the pixel count becomes 1952 and the integration time 10 only
\* after the parser was called, and connect then returns True.
C7_ConnectParsesOrderedSlices ==
    LET selects == OpsOf(bus, "write")
        reads   == OpsOf(bus, "write_readinto")
    IN  last_call.op = "connect" =>
        /\ Len(selects) = Len(reads)
        /\ Len(reads) <= MAX_PAGES
        /\ \A i \in 1..Len(selects) :
               selects[i].tx = <<60, 0, 2, 176, 64 + (i - 1), 255, 62>>
        /\ \A i \in 1..Len(reads) : Len(reads[i].rx) = 74
        /\ Len(parse_calls) <= 1
        /\ parse_calls # <<>> =>
               /\ Len(reads) = MAX_PAGES
               /\ Len(parse_calls[1]) = MAX_PAGES
               /\ \A i \in 1..MAX_PAGES :
                      parse_calls[1][i] = [j \in 1..65 |-> reads[i].rx[j + 9]]
        /\ (active_pixels_horizontal = 1952 \/ integration_time_ms = 10) =>
               parse_calls # <<>>
        /\ returned.kind = "True" <=>
               (active_pixels_horizontal = 1952 /\ integration_time_ms = 10)
        /\ returned.kind \in {"none", "True"}

\* connect has returned after draining before some page
C7_Witness ==
    /\ last_call.op = "connect"
    /\ returned.kind = "True"
    /\ dpc = "idle"
    /\ eeprom_marker = 100
    /\ OpsOf(bus, "readinto") # <<>>
    /\ Len(parse_calls) = 1

\* C15 as claimed: each page select and read request of connect is sent
\* when the ready line, as read last, was asserted.
C15_PageReadWhenReady ==
    [][ConnectReadPage => ready']_vars

\* C15 as amended: connect reads and drops two bytes each time it reads the
\* ready line asserted, and sends the page select and read request of the
\* next page when it reads the line not asserted.
C15_PageReadWhenNotReady ==
    [][/\ ConnectReadPage => ~ready'
       /\ ConnectDrain =>
              /\ ready'
              /\ bus' = Append(bus, BusOp("readinto", <<>>, <<>>))
              /\ UNCHANGED eeprom_pages]_vars

\* page 1 was read with the ready line low, after a drain before page 0
C15_Witness ==
    /\ last_call.op = "connect"
    /\ dpc = "connect"
    /\ Len(eeprom_pages) = 2
    /\ ~ready
    /\ bus[1].op = "readinto"
    /\ bus[Len(bus)].op = "write_readinto"

(***************************************************************************)
(* Properties of acquire_data (checked under SpecAcquire).                 *)
(***************************************************************************)
\* the sum of the i-th pixels of the spectra
RECURSIVE SumAt(_, _)
SumAt(spectrums, i) ==
    IF spectrums = <<>> THEN 0
    ELSE Head(spectrums)[i] + SumAt(Tail(spectrums), i)

\* C5: in a session with scans_to_average > 1 in which every acquire_data
\* call so far returned a Reading, after n >= 1 calls (n = K in particular)
\* the accumulator has the length of the first spectrum and holds, pixel by
\* pixel, the sum of the n spectra (the first copied, the later ones added),
\* and the count, also stamped on the n-th Reading, is n.
C5_RunningSumOfSpectra ==
    (scans_to_average > 1 /\ all_returned /\ acquired # <<>>) =>
        /\ sum_count = Len(acquired)
        /\ session_reading_count = Len(acquired)
        /\ Len(summed_spectra) = Len(acquired[1])
        /\ \A i \in 1..Len(summed_spectra) :
               summed_spectra[i] = SumAt(acquired, i)
        /\ returned.kind = "Reading" =>
               /\ returned.sum_count = Len(acquired)
               /\ returned.session_count = Len(acquired)
               /\ returned.spectrum = acquired[Len(acquired)]

\* K = scans_to_average acquisitions of two-pixel spectra have returned
C5_Witness ==
    /\ scans_to_average > 1
    /\ all_returned
    /\ dpc = "idle"
    /\ Len(acquired) = scans_to_average
    /\ returned.kind = "Reading"
    /\ returned.sum_count = scans_to_average
    /\ acquired[1] = <<4660, 1>>
    /\ acquired[2] = <<1, 1>>
    /\ summed_spectra[1] = 4661

\* C6: acquire_data called with the disconnect flag set returns False at
\* once: the trigger, the ready line, the acquiring flag, the bus, the
\* session reading counter, the sum count, the accumulator and the failure
\* counter are as before.
C6_AcquireWhileDisconnecting ==
    [][(AcquireData /\ disconnect) =>
          /\ returned'.kind = "False"
          /\ dpc' = "idle"
          /\ bus' = <<>>
          /\ UNCHANGED <<trigger, ready, acquiring, session_reading_count,
                         sum_count, summed_spectra, failure_count, spectra,
                         acquired, started>>]_vars

\* acquire_data has returned False in a session that had summed a spectrum
C6_Witness ==
    /\ last_call.op = "acquire_data"
    /\ disconnect
    /\ returned.kind = "False"
    /\ dpc = "idle"
    /\ session_reading_count = 1
    /\ sum_count = 1
    /\ summed_spectra = <<4660, 1>>

\* C10: every 2-byte read (b0, b1) of Acquire's reading loop appends one
\* pixel b0*256 + b1, in 0..65535, in arrival order: the list being built
\* and the spectrum of the Reading returned have one pixel per read.
C10_PixelsBigEndian ==
    LET reads == OpsOf(bus, "readinto")
        Decoded(pixels) ==
            /\ Len(pixels) = Len(reads)
            /\ \A i \in 1..Len(reads) :
                   /\ pixels[i] = (reads[i].rx[1] * 256) + reads[i].rx[2]
                   /\ pixels[i] \in 0..65535
    IN  last_call.op = "acquire_data" =>
            /\ dpc \in {"acq_wait", "acq_read"} => Decoded(spectra)
            /\ dpc = "acq_wait" => spectra = <<>>
            /\ returned.kind = "Reading" => Decoded(returned.spectrum)

\* the pairs (0x12,0x34), (0x00,0x01) were read and returned as
\* [0x1234, 0x0001]
C10_Witness ==
    /\ last_call.op = "acquire_data"
    /\ returned.kind = "Reading"
    /\ bus = << BusOp("readinto", <<>>, <<18, 52>>),
                BusOp("readinto", <<>>, <<0, 1>>) >>
    /\ returned.spectrum = <<4660, 1>>

\* C16: in an acquisition that got past the disconnect check, the trigger is
\* raised first; while Acquire waits no pixel has been read; the trigger is
\* lowered in the step that reads the ready line asserted for the first
\* time, before any pixel; each pixel is read with the ready line read
\* asserted before it and the trigger low; and the Reading is returned only
\* once the ready line was read not asserted, the trigger still low.
C16_HandshakeOrder ==
    /\ [](last_call.op = "acquire_data" =>
            (/\ dpc = "acq_wait" =>
                    /\ trigger
                    /\ spectra = <<>>
                    /\ OpsOf(bus, "readinto") = <<>>
             /\ dpc = "acq_read" => (ready /\ ~trigger)
             /\ returned.kind = "Reading" => (~ready /\ ~trigger)))
    /\ [][
           /\ (~trigger /\ trigger') =>
                 (dpc = "idle" /\ dpc' = "acq_wait" /\ bus' = <<>>)
           /\ (trigger /\ ~trigger') =>
                 (dpc = "acq_wait" /\ ready' /\ spectra = <<>> /\ UNCHANGED bus)
           /\ (bus' # bus /\ bus' # <<>>) =>
                 (dpc = "acq_read" /\ ready /\ ready' /\ ~trigger /\ ~trigger'
                  /\ Len(bus') = Len(bus) + 1)
           /\ (returned'.kind = "Reading" /\ returned.kind # "Reading") =>
                 (dpc = "acq_read" /\ ~ready' /\ ~trigger')]_vars

\* a second acquisition has returned two pixels
C16_Witness ==
    /\ last_call.op = "acquire_data"
    /\ returned.kind = "Reading"
    /\ returned.session_count = 2
    /\ Len(bus) = 2
    /\ ~trigger
    /\ ~ready
    /\ ~disconnect

\* C20: when no call of Acquire is running the acquiring flag is false,
\* however the last call ended (return, abort on disconnect, exception of
\* a bus read).
C20_AcquiringClearedOutsideAcquire ==
    dpc = "idle" => ~acquiring

(***************************************************************************)
(* Properties of set_integration_time_ms run beside acquire_data (checked  *)
(* under SpecRace).                                                        *)
(***************************************************************************)
\* C17: whatever the interleaving of the two threads, the frame that writes
\* the integration register goes out only while no acquisition is in
\* progress, that is not between the step in which Acquire sets acquiring
\* and raises the trigger and its return.
C17_NoWriteDuringAcquisition ==
    [][SetterWrite => dpc = "idle"]_vars

(***************************************************************************)
(* Properties of the worker loop on an SPIDevice (checked under            *)
(* SpecSession).                                                           *)
(***************************************************************************)
\* C18: a cycle whose acquisition fails with a transport error adds one to
\* the failure counter, puts nothing on the response queue, leaves the
\* session reading counter, the sum count and the accumulator as they were
\* and takes the worker to the next cycle; and that cycle gets to its
\* acquisition: the worker is not left spinning on the way to it.
C18_TransportErrorAbandonsCycle ==
    /\ [][SessionAcquireFails =>
             /\ failure_count' = failure_count + 1
             /\ UNCHANGED <<response_queue, session_reading_count, sum_count,
                            summed_spectra>>
             /\ wpc' = "commands"]_vars
    /\ [](failure_count > 0 => wpc # "set_wait")

(***************************************************************************)
(* Properties of the settings (checked under SpecSettings).                *)
(***************************************************************************)
\* C4: change_setting with a name outside {integration_time_ms,
\* write_eeprom, replace_eeprom} returns True at once, sends nothing on the
\* bus and leaves the settings, the flags, the signal lines, the counters
\* and the accumulator as they were.
C4_UnknownSettingIsNoOp ==
    [][\A setting \in DeviceSettings
                        \ {"integration_time_ms", "write_eeprom", "replace_eeprom"},
          value \in DeviceValues :
          ChangeSetting(setting, value) =>
             /\ returned'.kind = "True"
             /\ dpc' = "idle"
             /\ bus' = <<>>
             /\ UNCHANGED <<integration_time_ms, scans_to_average,
                            active_pixels_horizontal, disconnect, acquiring,
                            trigger, ready, summed_spectra, sum_count,
                            session_reading_count, failure_count, spectra,
                            eeprom_pages, parse_calls>>]_vars

\* change_setting("laser_enable", 300) has returned in a session that has
\* summed a spectrum and set an integration time
C4_Witness ==
    /\ last_call.op = "change_setting"
    /\ last_call.setting = "laser_enable"
    /\ last_call.value = 300
    /\ returned.kind = "True"
    /\ dpc = "idle"
    /\ sum_count = 1
    /\ integration_time_ms = 1

\* C9: EEPROMWritePage with a payload shorter than 64 bytes raises, and
\* neither the data frame nor the commit frame of the page was sent.
C9_ShortPayloadRaisesBeforeWrite ==
    (last_call.op = "EEPROMWritePage" /\ Len(last_call.write_array) < 64) =>
        /\ returned.kind = "raised"
        /\ bus = <<>>

\* EEPROMWritePage was called with 63 bytes after a page had been written
C9_Witness ==
    /\ last_call.op = "EEPROMWritePage"
    /\ Len(last_call.write_array) = 63
    /\ returned.kind = "raised"
    /\ dpc = "idle"

\* C12: EEPROMWritePage with a payload of 64 bytes or more sends two
\* frames and returns: first 70 bytes, 0x3C 0x00 0x41 0xB1, then
\* payload[0..63] in order, then 0xFF 0x3E; after it the seven bytes
\* 0x3C 0x00 0x02 0xB0 0x80+page 0xFF 0x3E.
C12_WritePageFrames ==
    (last_call.op = "EEPROMWritePage" /\ Len(last_call.write_array) >= 64) =>
        /\ returned.kind = "None"
        /\ Len(bus) = 2
        /\ bus[1].op = "write"
        /\ Len(bus[1].tx) = 70
        /\ SubSeq(bus[1].tx, 1, 4) = <<60, 0, 65, 177>>
        /\ \A x \in 0..63 : bus[1].tx[x + 5] = last_call.write_array[x + 1]
        /\ SubSeq(bus[1].tx, 69, 70) = <<255, 62>>
        /\ bus[2] = BusOp("write",
                          <<60, 0, 2, 176, 128 + last_call.page, 255, 62>>, <<>>)

\* page 7 was written with a payload of 65 bytes
C12_Witness ==
    /\ last_call.op = "EEPROMWritePage"
    /\ Len(last_call.write_array) = 65
    /\ last_call.page = 7
    /\ Len(bus) = 2
    /\ bus[1].tx[5] = 8
    /\ dpc = "idle"

=============================================================================
